---- MODULE Spec2Model ----
(***************************************************************************)
(* Model of the AI-interview backend: the Express application of           *)
(* src/index.js (serverless build) and of src/unnamed/part_000 (local      *)
(* server build).  The two files define the same four POST routes and the  *)
(* same helpers, with different bodies; the variable build says which file *)
(* is deployed, and every definition that differs between the files takes  *)
(* the build into account.                                                 *)
(*                                                                         *)
(* Strings are sequences of one-character strings.  JavaScript null and    *)
(* the JSON literals are the one-element sequences <<"null">>, <<"true">>, *)
(* <<"false">>, which no text equals.                                      *)
(***************************************************************************)
EXTENDS Integers, Sequences, FiniteSets, TLC

VARIABLES
    build,   \* the deployed file: "index.js" or "part_000"
    load,    \* which request population the environment offers
    req,     \* req[r]: the request as the handler receives it (after multer)
    pc,      \* pc[r]: where the handler of request r stands
    fs,      \* the upload directory: the temporary files present
    issued,  \* the file names multer has generated so far
    trace,   \* trace[r]: the steps the handler of r has taken, <<op, path>>
    resp,    \* resp[r]: the responses sent for r, in order
    reply,   \* reply[r]: what the awaited collaborator answered to r
    fn,      \* helper under test (pure-function specifications)
    arg,     \* its argument
    out      \* its result

vars == <<build, load, req, pc, fs, issued, trace, resp, reply, fn, arg, out>>

-----------------------------------------------------------------------------
(* Bounds *)

\* Number of requests in flight at once in the concurrent population.
MaxReqs == 2
\* Longest text enumerated exhaustively for JSON.parse / extractJSON.
MaxJSONLen == 4
\* Longest text enumerated exhaustively for extractEmail.
MaxEmailLen == 6
\* Most lines of a resume text enumerated for extractName.
MaxLines == 7

-----------------------------------------------------------------------------
(* Characters and JavaScript string primitives *)

LowerChars == <<"a", "b", "c", "d", "e", "f", "g", "h", "i", "j", "k", "l", "m",
                "n", "o", "p", "q", "r", "s", "t", "u", "v", "w", "x", "y", "z">>
UpperChars == <<"A", "B", "C", "D", "E", "F", "G", "H", "I", "J", "K", "L", "M",
                "N", "O", "P", "Q", "R", "S", "T", "U", "V", "W", "X", "Y", "Z">>
Range(s) == {s[i] : i \in 1..Len(s)}
Lower == Range(LowerChars)
Upper == Range(UpperChars)
Letter == Lower \cup Upper
Digit == {"0", "1", "2", "3", "4", "5", "6", "7", "8", "9"}
\* The characters of the regular-expression class \s that the inputs use.
WhiteSpace == {" ", "\t", "\n", "\r"}

JSNull == <<"null">>
JSTrue == <<"true">>
JSFalse == <<"false">>

\* String.prototype.toLowerCase, per character and per string.
LowerOf(c) ==
    IF c \in Upper
    THEN LowerChars[CHOOSE i \in 1..Len(UpperChars) : UpperChars[i] = c]
    ELSE c
toLowerCase(s) == [i \in 1..Len(s) |-> LowerOf(s[i])]

\* s.slice(i - 1): the suffix of s from position i (1-based).
From(s, i) == SubSeq(s, i, Len(s))

\* s.slice(i - 1, j): positions i..j of s, cut at the end of s.
Slice(s, i, j) == SubSeq(s, i, IF j <= Len(s) THEN j ELSE Len(s))

\*(haystack).includes(needle)
Includes(s, needle) ==
    \E i \in 1..(Len(s) - Len(needle) + 1) :
        SubSeq(s, i, i + Len(needle) - 1) = needle

\* All sequences over S of length at most n.
SeqsUpTo(S, n) == UNION {[1..k -> S] : k \in 0..n}

RECURSIVE Join(_, _)
\* lines.join(sep)
Join(lines, sep) ==
    IF Len(lines) = 0 THEN <<>>
    ELSE IF Len(lines) = 1 THEN lines[1]
    ELSE lines[1] \o sep \o Join(Tail(lines), sep)

-----------------------------------------------------------------------------
(* path.extname (Node.js), as used on req.file.originalname *)

\* Position of the last c in s, 0 when there is none.
LastIndexOf(s, c) ==
    IF \E i \in 1..Len(s) : s[i] = c
    THEN CHOOSE i \in 1..Len(s) : s[i] = c /\ \A j \in (i + 1)..Len(s) : s[j] # c
    ELSE 0

\* The extension of the last path component: from its last "." to the end;
\* empty when there is no ".", when the component starts with its only ".",
\* and for the component "..".
extname(p) ==
    LET start == LastIndexOf(p, "/") + 1
        base  == From(p, start)
        dot   == LastIndexOf(base, ".")
    IN  IF dot = 0 \/ dot = 1 THEN <<>>
        ELSE IF base = <<".", ".">> THEN <<>>
        ELSE From(base, dot)

-----------------------------------------------------------------------------
(* JSON.parse, the built-in both files call at extractJSON.                *)
(* A parsed value is represented by its serialization without white space: *)
(* two texts parse to the same representation iff they spell the same      *)
(* value (numbers and string escapes keep their spelling).  A SyntaxError  *)
(* is the result with ok = FALSE.                                          *)

ParseFail == [ok |-> FALSE, pos |-> 0, val |-> <<>>]
ParseOk(v, p) == [ok |-> TRUE, pos |-> p, val |-> v]

At(t, i) == IF i >= 1 /\ i <= Len(t) THEN t[i] ELSE "EOF"

RECURSIVE SkipWs(_, _)
SkipWs(t, i) == IF At(t, i) \in WhiteSpace THEN SkipWs(t, i + 1) ELSE i

RECURSIVE DigitsEnd(_, _)
\* First position at or after i that holds no digit.
DigitsEnd(t, i) == IF At(t, i) \in Digit THEN DigitsEnd(t, i + 1) ELSE i

HexDigit == Digit \cup {"a", "b", "c", "d", "e", "f", "A", "B", "C", "D", "E", "F"}

RECURSIVE StringEnd(_, _)
\* Position of the quote closing a string whose content starts at j; 0 when
\* the string is unterminated, holds a control character or a bad escape.
StringEnd(t, j) ==
    LET c == At(t, j) IN
    IF c = "EOF" \/ c \in {"\n", "\t", "\r"} THEN 0
    ELSE IF c = "\"" THEN j
    ELSE IF c = "\\" THEN
        IF At(t, j + 1) \in {"\"", "\\", "/", "b", "f", "n", "r", "t"}
        THEN StringEnd(t, j + 2)
        ELSE IF At(t, j + 1) = "u" /\ \A k \in 2..5 : At(t, j + k) \in HexDigit
        THEN StringEnd(t, j + 6)
        ELSE 0
    ELSE StringEnd(t, j + 1)

ParseString(t, i) ==
    LET e == StringEnd(t, i + 1) IN
    IF At(t, i) = "\"" /\ e # 0 THEN ParseOk(SubSeq(t, i, e), e + 1) ELSE ParseFail

ParseNumber(t, i) ==
    LET a    == IF At(t, i) = "-" THEN i + 1 ELSE i
        b    == IF At(t, a) = "0" THEN a + 1 ELSE DigitsEnd(t, a)
        c    == IF At(t, b) = "." THEN DigitsEnd(t, b + 1) ELSE b
        fracOk == c = b \/ c > b + 1
        s    == IF At(t, c) \in {"e", "E"}
                THEN (IF At(t, c + 1) \in {"+", "-"} THEN c + 2 ELSE c + 1)
                ELSE c
        d    == IF s = c THEN c ELSE DigitsEnd(t, s)
        expOk == s = c \/ d > s
    IN  IF b > a /\ fracOk /\ expOk THEN ParseOk(SubSeq(t, i, d - 1), d) ELSE ParseFail

ParseLiteral(t, i) ==
    IF Slice(t, i, i + 3) = <<"n", "u", "l", "l">> THEN ParseOk(JSNull, i + 4)
    ELSE IF Slice(t, i, i + 3) = <<"t", "r", "u", "e">> THEN ParseOk(JSTrue, i + 4)
    ELSE IF Slice(t, i, i + 4) = <<"f", "a", "l", "s", "e">> THEN ParseOk(JSFalse, i + 5)
    ELSE ParseFail

\* Object members as parsed so far: a later member with the same key
\* replaces the value of the earlier one.
PutMember(ms, k, v) ==
    IF \E n \in 1..Len(ms) : ms[n][1] = k
    THEN [n \in 1..Len(ms) |-> IF ms[n][1] = k THEN <<k, v>> ELSE ms[n]]
    ELSE Append(ms, <<k, v>>)

RECURSIVE SerializeMembers(_)
SerializeMembers(ms) ==
    IF Len(ms) = 0 THEN <<>>
    ELSE ms[1][1] \o <<":">> \o ms[1][2]
         \o (IF Len(ms) > 1 THEN <<",">> ELSE <<>>) \o SerializeMembers(Tail(ms))

RECURSIVE ParseValue(_, _), ParseElements(_, _, _), ParseMembers(_, _, _)

\* The elements of an array after "[" (or after a ","), acc what precedes.
ParseElements(t, i, acc) ==
    LET v == ParseValue(t, i)
        k == SkipWs(t, v.pos)
    IN  IF ~v.ok THEN ParseFail
        ELSE IF At(t, k) = "," THEN ParseElements(t, k + 1, acc \o v.val \o <<",">>)
        ELSE IF At(t, k) = "]" THEN ParseOk(<<"[">> \o acc \o v.val \o <<"]">>, k + 1)
        ELSE ParseFail

\* The members of an object after "{" (or after a ","), ms what precedes.
ParseMembers(t, i, ms) ==
    LET j == SkipWs(t, i)
        s == ParseString(t, j)
        c == SkipWs(t, s.pos)
        v == ParseValue(t, c + 1)
        k == SkipWs(t, v.pos)
        now == PutMember(ms, s.val, v.val)
    IN  IF ~s.ok \/ At(t, c) # ":" THEN ParseFail
        ELSE IF ~v.ok THEN ParseFail
        ELSE IF At(t, k) = "," THEN ParseMembers(t, k + 1, now)
        ELSE IF At(t, k) = "}"
        THEN ParseOk(<<"{">> \o SerializeMembers(now) \o <<"}">>, k + 1)
        ELSE ParseFail

ParseValue(t, i) ==
    LET j == SkipWs(t, i)
        c == At(t, j)
    IN  IF c = "{" THEN
            (IF At(t, SkipWs(t, j + 1)) = "}"
             THEN ParseOk(<<"{", "}">>, SkipWs(t, j + 1) + 1)
             ELSE ParseMembers(t, j + 1, <<>>))
        ELSE IF c = "[" THEN
            (IF At(t, SkipWs(t, j + 1)) = "]"
             THEN ParseOk(<<"[", "]">>, SkipWs(t, j + 1) + 1)
             ELSE ParseElements(t, j + 1, <<>>))
        ELSE IF c = "\"" THEN ParseString(t, j)
        ELSE IF c \in Digit \cup {"-"} THEN ParseNumber(t, j)
        ELSE ParseLiteral(t, j)

\* JSON.parse(text): one value, white space around it, nothing else.
JSONparse(text) ==
    LET v == ParseValue(text, 1) IN
    IF v.ok /\ SkipWs(text, v.pos) = Len(text) + 1 THEN v ELSE ParseFail

\* !value for a parsed value: null, false, 0 and "" are falsy.
Falsy(v) ==
    \/ v \in {JSNull, JSFalse, <<"\"", "\"">>}
    \/ /\ Len(v) > 0
       /\ v[1] \in Digit \cup {"-"}
       /\ \A i \in 1..Len(v) :
            (\A j \in 1..i : v[j] \notin {"e", "E"}) => v[i] \in {"0", "-", ".", "e", "E"}

-----------------------------------------------------------------------------
(* extractJSON *)

SyntaxError == <<"SyntaxError">>

\* text.match(/(\{[\s\S]*\}|\[[\s\S]*\])/): the match starts at the leftmost
\* "{" that has a "}" after it, or "[" that has a "]" after it, and runs to
\* the last such closer.  JSNull when nothing matches.
Closer(c) == IF c = "{" THEN "}" ELSE "]"
MatchStarts(text) ==
    {i \in 1..Len(text) :
        /\ text[i] \in {"{", "["}
        /\ \E j \in (i + 1)..Len(text) : text[j] = Closer(text[i])}
\* A variant whose match is lazy: it stops at the first closer.
BracketMatchLazy(text) ==
    IF MatchStarts(text) = {} THEN JSNull
    ELSE LET i == CHOOSE k \in MatchStarts(text) : \A m \in MatchStarts(text) : k <= m
         IN  SubSeq(text, i, CHOOSE j \in (i + 1)..Len(text) :
                                /\ text[j] = Closer(text[i])
                                /\ \A k \in (i + 1)..(j - 1) : text[k] # Closer(text[i]))
BracketMatch(text) ==
    IF MatchStarts(text) = {} THEN JSNull
    ELSE LET i == CHOOSE k \in MatchStarts(text) : \A m \in MatchStarts(text) : k <= m
         IN  SubSeq(text, i, LastIndexOf(text, Closer(text[i])))

\* try { return <parsed> } catch { <otherwise> }
ParsedOr(parsed, otherwise) == IF parsed.ok THEN parsed.val ELSE otherwise

\* The catch block of extractJSON.  The JSON.parse of the match is unguarded
\* in index.js (its SyntaxError propagates) and has its own try/catch in
\* part_000 (null instead).
CatchBlock(b, match) ==
    IF match = JSNull THEN JSNull
    ELSE ParsedOr(JSONparse(match), IF b = "index.js" THEN SyntaxError ELSE JSNull)

\* The value extractJSON returns, or SyntaxError when it throws.
extractJSON(b, text) == ParsedOr(JSONparse(text), CatchBlock(b, BracketMatch(text)))

-----------------------------------------------------------------------------
(* Field heuristics: extractEmail, extractPhone, extractName (the same in  *)
(* both files).  String.prototype.match returns the leftmost match, and    *)
(* at a position the first alternative the backtracking search completes.  *)

RECURSIVE RunEnd(_, _, _)
\* First position at or after i whose character is not in class.
RunEnd(t, i, class) == IF At(t, i) \in class THEN RunEnd(t, i + 1, class) ELSE i

Min(S) == CHOOSE x \in S : \A y \in S : x <= y
Max(S) == CHOOSE x \in S : \A y \in S : x >= y

\* [a-zA-Z0-9._%+-]
LocalChar == Letter \cup Digit \cup {".", "_", "%", "+", "-"}
\* [a-zA-Z0-9.-]
DomainChar == Letter \cup Digit \cup {".", "-"}
\* [a-z], the class of the last component
TldChar == Lower
MinTldLen == 2

\* Last position of the match of
\*   /[a-zA-Z0-9._%+-]+@[a-zA-Z0-9.-]+\.[a-z]{2,}/
\* that starts at i, 0 when no match starts there.  The local part runs to
\* the "@"; the domain part is greedy, so the "." taken is the last one of
\* the domain run that at least MinTldLen characters of TldChar follow.
EmailEndAt(t, i) ==
    LET a    == RunEnd(t, i, LocalChar)
        e    == RunEnd(t, a + 1, DomainChar)
        dots == {k \in (a + 2)..(e - 1) :
                    t[k] = "." /\ RunEnd(t, k + 1, TldChar) >= k + 1 + MinTldLen}
    IN  IF a > i /\ At(t, a) = "@" /\ dots # {}
        THEN RunEnd(t, Max(dots) + 1, TldChar) - 1
        ELSE 0

extractEmail(text) ==
    LET starts == {i \in 1..Len(text) : EmailEndAt(text, i) # 0} IN
    IF starts = {} THEN JSNull
    ELSE SubSeq(text, Min(starts), EmailEndAt(text, Min(starts)))

\* [\s-]
PhoneSep == WhiteSpace \cup {"-"}
AllDigits(t, i, n) == \A k \in i..(i + n - 1) : At(t, k) \in Digit

\* Last position of (\d{10}|\d{3}[\s-]\d{3}[\s-]\d{4}) at p, 0 when neither
\* alternative matches there; the first alternative is tried first.
PhoneMainEnd(t, p) ==
    IF AllDigits(t, p, 10) THEN p + 9
    ELSE IF /\ AllDigits(t, p, 3) /\ At(t, p + 3) \in PhoneSep
            /\ AllDigits(t, p + 4, 3) /\ At(t, p + 7) \in PhoneSep
            /\ AllDigits(t, p + 8, 4)
    THEN p + 11
    ELSE 0

\* The positions at which the main group may start for a match starting at
\* i, in the order the search tries them: the optional prefix
\* (\+?\d{1,3}[\s-]?) with 3, 2, 1 digits, each with and then without its
\* separator, and last no prefix at all.  0 marks a prefix that does not match.
PhonePrefixEnds(t, i) ==
    LET d == IF At(t, i) = "+" THEN i + 1 ELSE i
        after(n, sep) ==
            IF ~AllDigits(t, d, n) THEN 0
            ELSE IF sep = 1 THEN (IF At(t, d + n) \in PhoneSep THEN d + n + 1 ELSE 0)
            ELSE d + n
    IN  <<after(3, 1), after(3, 0), after(2, 1), after(2, 0), after(1, 1), after(1, 0), i>>

PhoneEndAt(t, i) ==
    LET ps   == PhonePrefixEnds(t, i)
        good == {n \in 1..Len(ps) : ps[n] # 0 /\ PhoneMainEnd(t, ps[n]) # 0}
    IN  IF good = {} THEN 0 ELSE PhoneMainEnd(t, ps[Min(good)])

extractPhone(text) ==
    LET starts == {i \in 1..Len(text) : PhoneEndAt(text, i) # 0} IN
    IF starts = {} THEN JSNull
    ELSE SubSeq(text, Min(starts), PhoneEndAt(text, Min(starts)))

\* How many leading lines extractName examines, and the largest number of
\* pieces s.split(" ") may have.
NameScanLines == 6
MaxNamePieces == 4

RECURSIVE SplitLines(_)
\* text.split(/\r?\n/)
SplitLines(t) ==
    IF \A i \in 1..Len(t) : t[i] # "\n" THEN <<t>>
    ELSE LET n == Min({i \in 1..Len(t) : t[i] = "\n"})
             e == IF At(t, n - 1) = "\r" THEN n - 2 ELSE n - 1
         IN  <<SubSeq(t, 1, e)>> \o SplitLines(From(t, n + 1))

\* String.prototype.trim
trim(s) ==
    IF \A i \in 1..Len(s) : s[i] \in WhiteSpace THEN <<>>
    ELSE SubSeq(s, Min({i \in 1..Len(s) : s[i] \notin WhiteSpace}),
                   Max({i \in 1..Len(s) : s[i] \notin WhiteSpace}))

\* .filter(Boolean) on strings: the empty ones go.
NonEmpty(lines) == SelectSeq(lines, LAMBDA l : l # <<>>)

TrimmedLines(text) ==
    LET ls == SplitLines(text) IN NonEmpty([i \in 1..Len(ls) |-> trim(ls[i])])

\* s.split(" ").length: one more than the number of space characters.
SplitSpaceLength(s) == Cardinality({i \in 1..Len(s) : s[i] = " "}) + 1

\* The test of one line in extractName.
NameLineOk(s) ==
    /\ ~Includes(toLowerCase(s), <<"r", "e", "s", "u", "m", "e">>)
    /\ \E i \in 1..Len(s) : s[i] \in Letter
    /\ SplitSpaceLength(s) <= MaxNamePieces

extractName(text) ==
    LET lines == TrimmedLines(text)
        upto  == IF Len(lines) < NameScanLines THEN Len(lines) ELSE NameScanLines
        ok    == {i \in 1..upto : NameLineOk(lines[i])}
    IN  IF ok = {} THEN JSNull ELSE lines[Min(ok)]

-----------------------------------------------------------------------------
(* Requests, responses and collaborator outcomes *)

Builds == {"index.js", "part_000"}
Reqs == 1..MaxReqs
\* The file names multer can generate (random in the code, unique per upload).
Names == 1..MaxReqs

NoFile == <<"no-file">>
Undefined == <<"undefined">>

\* A request as the route receives it.  Body fields are JavaScript values up
\* to what the handlers test: "undefined" (absent), "" and "null" (falsy),
\* "text", "array", "object" (truthy).  express.json() leaves req.body an
\* object, so the body itself is never absent.
Request(e, f, ro, st, q, a, c) ==
    [endpoint |-> e, file |-> f, path |-> 0, role |-> ro, stack |-> st,
     question |-> q, answer |-> a, candidate |-> c]
NoReq == Request("none", NoFile, "undefined", "undefined", "undefined", "undefined", "undefined")
Upload(f) == Request("parse-resume", f, "undefined", "undefined", "undefined", "undefined", "undefined")
Questions(ro, st) == Request("generate-questions", NoFile, ro, st, "undefined", "undefined", "undefined")
Grade(q, a) == Request("grade-answer", NoFile, "undefined", "undefined", q, a, "undefined")
Summary(c) == Request("final-summary", NoFile, "undefined", "undefined", "undefined", "undefined", c)

FileNames ==
    {<<"c", "v", ".", "p", "d", "f">>, <<"c", "v", ".", "P", "D", "F">>,
     <<"c", "v", ".", "P", "d", "f">>, <<"c", "v", ".", "d", "o", "c", "x">>,
     <<"c", "v", ".", "D", "o", "c", "X">>, <<"c", "v", ".", "t", "x", "t">>,
     <<"c", "v">>, <<".", "p", "d", "f">>, <<"p", "d", "f">>, <<"c", "v", ".">>,
     <<"c", "v", ".", "p", "d", "f", ".", "t", "x", "t">>,
     <<"c", "v", ".", "t", "x", "t", ".", "p", "d", "f">>,
     <<"c", "v", ".", "p", "d", "f", "x">>, <<"c", "v", ".", "d", "o", "c">>,
     <<"a", ".", "p", "d", "f", "/", "b">>, <<"a", "/", ".", "p", "d", "f">>}

\* candidate: absent, null, an object without answers, an object whose
\* answers is null, an object with an answers array.
CandidateKinds == {"undefined", "null", "no-answers", "null-answers", "with-answers"}

WideInputs ==
    {Upload(f) : f \in FileNames \cup {NoFile}}
    \cup {Questions(ro, st) : ro \in {"undefined", "text"},
                              st \in {"undefined", "null", "text", "array"}}
    \cup {Grade(q, a) : q \in {"undefined", "", "text"}, a \in {"undefined", "", "text"}}
    \cup {Summary(c) : c \in CandidateKinds}

NarrowInputs ==
    {Upload(<<"c", "v", ".", "p", "d", "f">>), Upload(<<"c", "v", ".", "t", "x", "t">>),
     Upload(<<"c", "v", ".", "d", "o", "c", "x">>),
     Questions("undefined", "undefined"),
     Grade("text", "text"), Grade("text", "undefined"), Summary("no-answers")}

\* What a document decoder or the gateway answers: it throws, or a text.
Threw == [threw |-> TRUE, text |-> <<>>]
Text(t) == [threw |-> FALSE, text |-> t]
NoReply == [threw |-> FALSE, text |-> <<"none">>]

ResumeText1 ==
    <<"J", "a", "n", "e", " ", "D", "o", "e", "\n", "R", "e", "s", "u", "m", "e", "\n",
      "j", "a", "n", "e", "@", "x", ".", "c", "o", "m", "\n",
      "9", "8", "7", "6", "5", "4", "3", "2", "1", "0">>
ResumeText2 == <<"R", "E", "S", "U", "M", "E", "\n", "1", "2", "3", "4", "5">>
ResumeText3 == <<"A", "l", " ", "B", "o", "\n", "a", "@", "b", ".", "c", "o">>
WideDecoded ==
    {Threw, Text(Undefined), Text(<<>>), Text(ResumeText1), Text(ResumeText2), Text(ResumeText3)}
NarrowDecoded == {Threw, Text(ResumeText3)}

ReplyObject == <<"{", "\"", "s", "\"", ":", "7", "}">>
ReplyWrapped ==
    <<"H", "i", ":", "\n", "{", "\"", "s", "\"", ":", "7", "}", "\n", "o", "k">>
ReplyArray == <<"[", "1", ",", "0", "]">>
ReplyProse == <<"n", "o", " ", "j", "s", "o", "n">>
ReplyBadBraces == <<"{", "x", "}">>
ReplyNull == <<"n", "u", "l", "l">>
ReplyZero == <<"0">>
ReplyTwoObjects ==
    <<"{", "\"", "a", "\"", ":", "1", "}", " ", "a", "n", "d", " ",
      "{", "\"", "b", "\"", ":", "2", "}">>
WideReplies ==
    {Threw} \cup {Text(t) : t \in {ReplyObject, ReplyWrapped, ReplyArray, ReplyProse,
                                   ReplyBadBraces, ReplyNull, ReplyZero, ReplyTwoObjects}}
NarrowReplies == {Threw, Text(ReplyObject), Text(ReplyBadBraces), Text(ReplyProse)}

Inputs(l) == IF l = "single" THEN WideInputs ELSE NarrowInputs
Decoded(l) == IF l = "single" THEN WideDecoded ELSE NarrowDecoded
Replies(l) == IF l = "single" THEN WideReplies ELSE NarrowReplies

\* res.status(status).json({error}) and res.json(...): the response sent.
ErrorBody(status, msg) == [status |-> status, shape |-> "error", error |-> msg, data |-> <<>>]
OkBody(shape, data) == [status |-> 200, shape |-> shape, error |-> "", data |-> data]

\* What one run of handler code (from its start or from the resumption of an
\* await, to its next await or its return) does: where it stops, the steps
\* it took, the responses it sent, the files it removed.
Step(op, path) == <<op, path>>
Effect(at, steps, sent, removed) ==
    [pc |-> at, steps |-> steps, resp |-> sent, unlink |-> removed]
Json(steps, body) == Effect("done", steps \o <<Step("respond", 0)>>, <<body>>, {})
Await(at, steps) == Effect(at, steps, <<>>, {})

-----------------------------------------------------------------------------
(* POST /api/parse-resume *)

ParseFailed == ErrorBody(500, "Failed to parse resume")

\* A variant that stages every upload under one fixed name.
FilePathShared(rq) == 1

\* req.file.path
FilePath(rq) == rq.path

\* A variant that compares the extension as written.
FileExtCaseSensitive(rq) == extname(rq.file)

\* path.extname(req.file.originalname).toLowerCase()
FileExt(rq) == toLowerCase(extname(rq.file))

\* fs.unlinkSync(path) followed by `next`: it throws when the file is not
\* there, and the handler's catch answers 500.
UnlinkThen(steps, p, files, next) ==
    IF p \in files
    THEN [next EXCEPT !.steps = steps \o <<Step("unlink", p)>> \o @, !.unlink = {p}]
    ELSE Json(steps \o <<Step("unlink-throws", p)>>, ParseFailed)

\* From the start of the handler to the await of a decoder or the return.
ParseResumeStart(b, rq, files) ==
    IF rq.file = NoFile
    THEN Json(<<Step("validate", 0)>>, ErrorBody(400, "No file uploaded"))
    ELSE IF FileExt(rq) = <<".", "p", "d", "f">>
    THEN (IF FilePath(rq) \in files
          THEN Await("pdfParse", <<Step("validate", 0), Step("readFileSync", FilePath(rq)),
                                   Step("pdfParse", 0)>>)
          ELSE Json(<<Step("validate", 0), Step("readFileSync-throws", FilePath(rq))>>,
                    ParseFailed))
    ELSE IF FileExt(rq) = <<".", "d", "o", "c", "x">>
    THEN Await("mammoth", <<Step("validate", 0), Step("mammoth", FilePath(rq))>>)
    ELSE IF b = "part_000"
    THEN UnlinkThen(<<Step("validate", 0)>>, FilePath(rq), files,
                    Json(<<>>, ErrorBody(400, "Only PDF or DOCX allowed")))
    ELSE Json(<<Step("validate", 0)>>, ErrorBody(400, "Only PDF or DOCX allowed"))

\* pdf.text || "" and result.value || ""
TextOr(t) == IF t = Undefined THEN <<>> ELSE t

Profile(text) ==
    OkBody("profile", <<extractName(text), extractEmail(text), extractPhone(text), text>>)

\* After a successful decode: part_000 removes the file, then both answer.
Extracted(b, rq, files, answer) ==
    IF b = "part_000" THEN UnlinkThen(<<>>, FilePath(rq), files, answer) ELSE answer

\* From the resumption after the decoder's promise settles to the return.
ParseResumeResume(b, rq, files, decoded) ==
    IF decoded.threw THEN Json(<<>>, ParseFailed)
    ELSE Extracted(b, rq, files, Json(<<>>, Profile(TextOr(decoded.text))))

-----------------------------------------------------------------------------
(* POST /api/generate-questions, /api/grade-answer, /api/final-summary *)

QuestionsFailed == ErrorBody(500, "Gemini question generation failed")
GradingFailed == ErrorBody(500, "Gemini grading failed")
SummaryFailed == ErrorBody(500, "Gemini summary failed")

\* model.generateContent(prompt): the handler suspends until the reply.
CallGateway(steps) == Await("generateContent", steps \o <<Step("generateContent", 0)>>)

\* The stack the prompt is built from.  index.js destructures with a
\* default, which replaces only undefined; part_000 uses ||, which replaces
\* every falsy value.
StackUsed(b, rq) ==
    IF rq.stack = "undefined" THEN "array"
    ELSE IF b = "part_000" /\ rq.stack \in {"null", ""} THEN "array"
    ELSE rq.stack

\* stack.join(", ") throws unless the stack is an array; the catch answers 500.
GenerateQuestionsStart(b, rq) ==
    IF StackUsed(b, rq) = "array" THEN CallGateway(<<>>)
    ELSE Json(<<>>, QuestionsFailed)

\* What the handler does with the decoded value: a SyntaxError lands in the
\* catch; in part_000 a falsy value is thrown on; index.js sends whatever
\* it got.
Sent(b, value, wrap, failed) ==
    IF value = SyntaxError THEN Json(<<Step("extractJSON", 0)>>, failed)
    ELSE IF b = "part_000" /\ Falsy(value) THEN Json(<<Step("extractJSON", 0)>>, failed)
    ELSE Json(<<Step("extractJSON", 0)>>, OkBody(wrap, <<value>>))

\* extractJSON(result.response.text()), then the response.
Decode(b, text, wrap, failed) == Sent(b, extractJSON(b, text), wrap, failed)

GenerateQuestionsResume(b, rq, got) ==
    IF got.threw THEN Json(<<>>, QuestionsFailed)
    ELSE Decode(b, got.text, "questions", QuestionsFailed)

\* !question || !answer
GradeMissing(rq) == rq.question \in {"undefined", "null", ""} \/ rq.answer \in {"undefined", "null", ""}

GradeAnswerStart(b, rq) ==
    IF GradeMissing(rq)
    THEN Json(<<Step("validate", 0)>>, ErrorBody(400, "Missing data"))
    ELSE CallGateway(<<Step("validate", 0)>>)

\* A variant that calls the gateway again when it failed.
GradeAnswerResumeRetry(b, rq, got) ==
    IF got.threw THEN CallGateway(<<>>)
    ELSE Decode(b, got.text, "value", GradingFailed)

GradeAnswerResume(b, rq, got) ==
    IF got.threw THEN Json(<<>>, GradingFailed)
    ELSE Decode(b, got.text, "value", GradingFailed)

\* index.js: !candidate.  part_000: !candidate || !candidate.answers.
SummaryMissing(b, rq) ==
    IF b = "index.js" THEN rq.candidate \in {"undefined", "null"}
    ELSE rq.candidate \in {"undefined", "null", "no-answers", "null-answers"}

FinalSummaryStart(b, rq) ==
    IF SummaryMissing(b, rq)
    THEN Json(<<Step("validate", 0)>>, ErrorBody(400, "Missing candidate data"))
    ELSE CallGateway(<<Step("validate", 0)>>)

FinalSummaryResume(b, rq, got) ==
    IF got.threw THEN Json(<<>>, SummaryFailed)
    ELSE Decode(b, got.text, "value", SummaryFailed)

-----------------------------------------------------------------------------
(* The server: requests arrive, handlers run between awaits *)

\* The effect e of a run of request r's handler on the state.
Do(r, e) ==
    /\ pc' = [pc EXCEPT ![r] = e.pc]
    /\ trace' = [trace EXCEPT ![r] = @ \o e.steps]
    /\ resp' = [resp EXCEPT ![r] = @ \o e.resp]
    /\ fs' = fs \ e.unlink

Offered(r) == IF load = "single" /\ r # 1 THEN {} ELSE Inputs(load)

\* upload.single("file") with a file part: multer writes it under a fresh
\* generated name and sets req.file, then the route runs.
MulterStore(r) ==
    /\ pc[r] = "idle"
    /\ \E in \in Offered(r), name \in Names \ issued :
        /\ in.file # NoFile
        /\ req' = [req EXCEPT ![r] = [in EXCEPT !.path = name]]
        /\ fs' = fs \cup {name}
        /\ issued' = issued \cup {name}
        /\ trace' = [trace EXCEPT ![r] = <<Step("multer", name)>>]
    /\ pc' = [pc EXCEPT ![r] = "route"]
    /\ UNCHANGED <<build, load, resp, reply, fn, arg, out>>

\* A request without a file part reaches its route.
Arrive(r) ==
    /\ pc[r] = "idle"
    /\ \E in \in Offered(r) :
        /\ in.file = NoFile
        /\ req' = [req EXCEPT ![r] = in]
    /\ pc' = [pc EXCEPT ![r] = "route"]
    /\ UNCHANGED <<build, load, fs, issued, trace, resp, reply, fn, arg, out>>

ParseResume(r) ==
    /\ pc[r] = "route" /\ req[r].endpoint = "parse-resume"
    /\ \E e \in {ParseResumeStart(build, req[r], fs)} : Do(r, e)
    /\ UNCHANGED <<build, load, req, issued, reply, fn, arg, out>>

\* The awaited decoder settles.  pdfParse(data) works on the bytes already
\* read; mammoth.extractRawText({path}) opens the file itself, and rejects
\* when the file is not there.
DecoderSettles(r) ==
    /\ pc[r] \in {"pdfParse", "mammoth"}
    /\ \E decoded \in Decoded(load) :
        /\ (pc[r] = "mammoth" /\ FilePath(req[r]) \notin fs) => decoded.threw
        /\ reply' = [reply EXCEPT ![r] = decoded]
        /\ \E e \in {ParseResumeResume(build, req[r], fs, decoded)} : Do(r, e)
    /\ UNCHANGED <<build, load, req, issued, fn, arg, out>>

GenerateQuestions(r) ==
    /\ pc[r] = "route" /\ req[r].endpoint = "generate-questions"
    /\ \E e \in {GenerateQuestionsStart(build, req[r])} : Do(r, e)
    /\ UNCHANGED <<build, load, req, issued, reply, fn, arg, out>>

GradeAnswer(r) ==
    /\ pc[r] = "route" /\ req[r].endpoint = "grade-answer"
    /\ \E e \in {GradeAnswerStart(build, req[r])} : Do(r, e)
    /\ UNCHANGED <<build, load, req, issued, reply, fn, arg, out>>

FinalSummary(r) ==
    /\ pc[r] = "route" /\ req[r].endpoint = "final-summary"
    /\ \E e \in {FinalSummaryStart(build, req[r])} : Do(r, e)
    /\ UNCHANGED <<build, load, req, issued, reply, fn, arg, out>>

\* model.generateContent settles for the handler that awaits it (a throwing
\* response.text() counts as a rejection: both land in the handler's catch).
QuestionsSettles(r) ==
    /\ pc[r] = "generateContent" /\ req[r].endpoint = "generate-questions"
    /\ \E got \in Replies(load) :
        /\ reply' = [reply EXCEPT ![r] = got]
        /\ \E e \in {GenerateQuestionsResume(build, req[r], got)} : Do(r, e)
    /\ UNCHANGED <<build, load, req, issued, fn, arg, out>>

GradingSettles(r) ==
    /\ pc[r] = "generateContent" /\ req[r].endpoint = "grade-answer"
    /\ \E got \in Replies(load) :
        /\ reply' = [reply EXCEPT ![r] = got]
        /\ \E e \in {GradeAnswerResume(build, req[r], got)} : Do(r, e)
    /\ UNCHANGED <<build, load, req, issued, fn, arg, out>>

SummarySettles(r) ==
    /\ pc[r] = "generateContent" /\ req[r].endpoint = "final-summary"
    /\ \E got \in Replies(load) :
        /\ reply' = [reply EXCEPT ![r] = got]
        /\ \E e \in {FinalSummaryResume(build, req[r], got)} : Do(r, e)
    /\ UNCHANGED <<build, load, req, issued, fn, arg, out>>

Init ==
    /\ build \in Builds
    /\ load \in {"single", "concurrent"}
    /\ req = [r \in Reqs |-> NoReq]
    /\ pc = [r \in Reqs |-> "idle"]
    /\ fs = {}
    /\ issued = {}
    /\ trace = [r \in Reqs |-> <<>>]
    /\ resp = [r \in Reqs |-> <<>>]
    /\ reply = [r \in Reqs |-> NoReply]
    /\ fn = "none" /\ arg = <<>> /\ out = <<>>

Next ==
    \E r \in Reqs :
        \/ MulterStore(r)
        \/ Arrive(r)
        \/ ParseResume(r)
        \/ DecoderSettles(r)
        \/ GenerateQuestions(r)
        \/ GradeAnswer(r)
        \/ FinalSummary(r)
        \/ QuestionsSettles(r)
        \/ GradingSettles(r)
        \/ SummarySettles(r)

Spec == Init /\ [][Next]_vars

-----------------------------------------------------------------------------
(* Properties of the handlers *)

Done(r) == pc[r] = "done"
Started(r) == pc[r] \notin {"idle", "route"}
Ops(r) == {trace[r][i][1] : i \in 1..Len(trace[r])}
Count(r, op) == Cardinality({i \in 1..Len(trace[r]) : trace[r][i][1] = op})
IsUpload(r) == req[r].endpoint = "parse-resume" /\ req[r].file # NoFile
AIEndpoints == {"generate-questions", "grade-answer", "final-summary"}
FailureOf(e) ==
    IF e = "generate-questions" THEN QuestionsFailed
    ELSE IF e = "grade-answer" THEN GradingFailed
    ELSE SummaryFailed
GotText(r) == reply[r] # NoReply /\ ~reply[r].threw

\* C1: every parse-resume request that carried a file ends with its temporary
\* file removed, and removed exactly once, whatever the exit path.
C1_TempFileRemovedExactlyOnce ==
    \A r \in Reqs :
        (Done(r) /\ IsUpload(r)) => (Count(r, "unlink") = 1 /\ req[r].path \notin fs)

\* C2: on the three AI endpoints a reply that decodes to absent is answered
\* 500 with the endpoint's message, and no 200 carries an absent value.
C2_AbsentDecodeAnswers500 ==
    \A r \in Reqs :
        (Done(r) /\ req[r].endpoint \in AIEndpoints) =>
            /\ (GotText(r) /\ extractJSON(build, reply[r].text) = JSNull)
                    => resp[r] = <<FailureOf(req[r].endpoint)>>
            /\ \A i \in 1..Len(resp[r]) :
                    resp[r][i].status = 200 => resp[r][i].data # <<JSNull>>

\* C4: final-summary answers 400 "Missing candidate data" without calling
\* the gateway when the body has no candidate or the candidate no answers
\* field; the gateway is called only for a candidate with an answers field.
C4_MissingCandidateData ==
    \A r \in Reqs :
        (Started(r) /\ req[r].endpoint = "final-summary") =>
            /\ req[r].candidate \in {"undefined", "null", "no-answers"} =>
                    /\ resp[r] = <<ErrorBody(400, "Missing candidate data")>>
                    /\ "generateContent" \notin Ops(r)
            /\ "generateContent" \in Ops(r) =>
                    req[r].candidate \in {"null-answers", "with-answers"}

\* The names the claim accepts: a non-empty stem followed by ".pdf" or
\* ".docx" in any letter case.
EndsWithExt(f, e) ==
    /\ Len(f) > Len(e)
    /\ toLowerCase(SubSeq(f, Len(f) - Len(e) + 1, Len(f))) = e
    /\ f[Len(f) - Len(e)] # "/"
AcceptedName(f) ==
    EndsWithExt(f, <<".", "p", "d", "f">>) \/ EndsWithExt(f, <<".", "d", "o", "c", "x">>)
DecoderOps == {"readFileSync", "pdfParse", "mammoth"}

\* C5: parse-resume accepts exactly .pdf and .docx, in any letter case; any
\* other name is answered 400 "Only PDF or DOCX allowed" with no file read
\* and no decoder invoked; no file is answered 400 "No file uploaded".
C5_OnlyPdfOrDocx ==
    \A r \in Reqs :
        (Started(r) /\ req[r].endpoint = "parse-resume") =>
            /\ req[r].file = NoFile => resp[r] = <<ErrorBody(400, "No file uploaded")>>
            /\ (IsUpload(r) /\ ~AcceptedName(req[r].file)) =>
                    /\ resp[r] = <<ErrorBody(400, "Only PDF or DOCX allowed")>>
                    /\ Ops(r) \cap DecoderOps = {}
            /\ (IsUpload(r) /\ AcceptedName(req[r].file)) =>
                    /\ Ops(r) \cap {"pdfParse", "mammoth"} # {}
                    /\ \A i \in 1..Len(resp[r]) : resp[r][i].status # 400
C5_Witness ==
    \E r \in Reqs :
        /\ Done(r)
        /\ req[r].file = <<"c", "v", ".", "t", "x", "t">>
        /\ resp[r] = <<ErrorBody(400, "Only PDF or DOCX allowed")>>

\* The place of a step in the order validate, generate, decode, respond.
Rank(op) ==
    IF op = "validate" THEN 1
    ELSE IF op = "generateContent" THEN 2
    ELSE IF op = "extractJSON" THEN 3
    ELSE 4

\* C6: a request to an AI endpoint validates, calls the gateway, decodes
\* and responds in that order, each at most once: no gateway call after a
\* failed validation (a 400) or after a gateway failure, decoding only of
\* a received reply, one response, and nothing after the response.
C6_StepOrder ==
    \A r \in Reqs :
        req[r].endpoint \in AIEndpoints =>
            /\ \A i, j \in 1..Len(trace[r]) :
                    i < j => Rank(trace[r][i][1]) < Rank(trace[r][j][1])
            /\ Ops(r) \subseteq {"validate", "generateContent", "extractJSON", "respond"}
            /\ (req[r].endpoint # "generate-questions" /\ Started(r)) => "validate" \in Ops(r)
            /\ "extractJSON" \in Ops(r) => ("generateContent" \in Ops(r) /\ GotText(r))
            /\ Len(resp[r]) = Count(r, "respond")
            /\ Done(r) <=> Len(resp[r]) = 1
            /\ \A i \in 1..Len(resp[r]) :
                    resp[r][i].status = 400 => "generateContent" \notin Ops(r)
            /\ reply[r].threw => resp[r] = <<FailureOf(req[r].endpoint)>>
C6_Witness ==
    \E r \in Reqs :
        /\ req[r].endpoint = "grade-answer" /\ Done(r)
        /\ trace[r] = <<Step("validate", 0), Step("generateContent", 0),
                        Step("extractJSON", 0), Step("respond", 0)>>
        /\ resp[r] = <<OkBody("value", <<ReplyObject>>)>>

\* The response of a request handled alone, with only its own file in the
\* upload directory: a function of its input and its collaborator's answer.
StartAlone(b, rq) ==
    IF rq.endpoint = "parse-resume" THEN ParseResumeStart(b, rq, {rq.path})
    ELSE IF rq.endpoint = "generate-questions" THEN GenerateQuestionsStart(b, rq)
    ELSE IF rq.endpoint = "grade-answer" THEN GradeAnswerStart(b, rq)
    ELSE FinalSummaryStart(b, rq)
ResumeAlone(b, rq, got) ==
    IF rq.endpoint = "parse-resume" THEN ParseResumeResume(b, rq, {rq.path}, got)
    ELSE IF rq.endpoint = "generate-questions" THEN GenerateQuestionsResume(b, rq, got)
    ELSE IF rq.endpoint = "grade-answer" THEN GradeAnswerResume(b, rq, got)
    ELSE FinalSummaryResume(b, rq, got)
Alone(b, rq, got) ==
    IF StartAlone(b, rq).pc = "done" THEN StartAlone(b, rq).resp
    ELSE ResumeAlone(b, rq, got).resp

\* C7: under every interleaving a request's response is the one it gets when
\* handled alone; every file operation of a handler is on its own upload,
\* uploads never share a file, and only its owner's steps remove a file.
C7_RequestsIsolated ==
    /\ \A r \in Reqs :
        /\ \A i \in 1..Len(trace[r]) :
                trace[r][i][2] # 0 => (IsUpload(r) /\ trace[r][i][2] = req[r].path)
        /\ Done(r) => resp[r] = Alone(build, req[r], reply[r])
        /\ (IsUpload(r) /\ pc[r] # "idle" /\ Ops(r) \cap {"unlink", "unlink-throws"} = {})
                => req[r].path \in fs
    /\ \A r, q \in Reqs :
        (r # q /\ IsUpload(r) /\ IsUpload(q) /\ pc[r] # "idle" /\ pc[q] # "idle")
            => req[r].path # req[q].path
C7_Witness ==
    \E r, q \in Reqs :
        /\ r # q /\ Done(r) /\ Done(q) /\ IsUpload(r) /\ IsUpload(q)
        /\ resp[r] = <<ParseFailed>>
        /\ resp[q] = <<Profile(ResumeText3)>>
        /\ \E i \in 1..Len(trace[q]), j \in 1..Len(trace[r]) :
                trace[q][i][1] = "readFileSync" /\ trace[r][j][1] = "readFileSync"

-----------------------------------------------------------------------------
(* The helpers on their own: an argument is drawn, the helper is applied *)

Pending == <<"pending">>

HelperInit(f, args) ==
    /\ build \in Builds
    /\ load = "none"
    /\ req = [r \in Reqs |-> NoReq]
    /\ pc = [r \in Reqs |-> "idle"]
    /\ fs = {}
    /\ issued = {}
    /\ trace = [r \in Reqs |-> <<>>]
    /\ resp = [r \in Reqs |-> <<>>]
    /\ reply = [r \in Reqs |-> NoReply]
    /\ fn = f /\ arg \in args /\ out = Pending

JSONAlphabet == {"{", "}", "[", "]", "\"", ":", ",", "1", "x", " "}
JSONSamples ==
    {ReplyObject, ReplyWrapped, ReplyArray, ReplyProse, ReplyBadBraces, ReplyNull,
     ReplyZero, ReplyTwoObjects,
     <<"[", "[", "]", "]", "x">>,
     <<"x", " ", "[", "1", ",", "0", "]", " ", "x">>,
     <<"[", "x", "]", " ", "{", "\"", "a", "\"", ":", "1", "}">>,
     <<"t", "r", "u", "e">>, <<"f", "a", "l", "s", "e">>,
     <<"{", "\"", "a", "\"", ":", "1", ",", "\"", "a", "\"", ":", "0", "}">>,
     <<"x", "{", "\"", "a", "\"", ":", "[", "1", "]", "}", "\n">>}
JSONTexts == SeqsUpTo(JSONAlphabet, MaxJSONLen) \cup JSONSamples

ApplyExtractJSON ==
    /\ fn = "extractJSON" /\ out = Pending
    /\ out' = extractJSON(build, arg)
    /\ UNCHANGED <<build, load, req, pc, fs, issued, trace, resp, reply, fn, arg>>

InitJSON == HelperInit("extractJSON", JSONTexts)
SpecJSON == InitJSON /\ [][ApplyExtractJSON]_vars

EmailAlphabet == {"a", "A", "@", ".", " "}
EmailSamples ==
    {<<"a", "@", "b", ".", "C", "O", "M">>, <<"a", "@", "b", ".", "C", "o", "m">>,
     <<"x", " ", "a", "@", "b", ".", "c", "o", " ", "c", "@", "d", ".", "e", "e">>,
     <<"C", "o", "n", "t", "a", "c", "t", ":", " ", "j", "a", "n", "e", ".", "d", "o", "e",
       "@", "e", "x", "a", "m", "p", "l", "e", ".", "c", "o", "m", ",", " ", "p", "h">>,
     ResumeText1, ResumeText2}
EmailTexts == SeqsUpTo(EmailAlphabet, MaxEmailLen) \cup EmailSamples

ApplyExtractEmail ==
    /\ fn = "extractEmail" /\ out = Pending
    /\ out' = extractEmail(arg)
    /\ UNCHANGED <<build, load, req, pc, fs, issued, trace, resp, reply, fn, arg>>

InitEmail == HelperInit("extractEmail", EmailTexts)
SpecEmail == InitEmail /\ [][ApplyExtractEmail]_vars

\* Resume texts: up to MaxLines lines of a name, a "Resume" heading or
\* nothing, and up to two lines of any of the sample lines.
CoreLines == {<<"A", "l", " ", "B", "o">>, <<"R", "e", "s", "u", "m", "e">>, <<>>}
SampleLines ==
    CoreLines \cup
    {<<"a", "b", " ", " ", "c", "d", " ", " ", "e", "f">>,
     <<"a", "\t", "b", "\t", "c", "\t", "d", "\t", "e">>,
     <<"a", " ", "b", " ", "c", " ", "d", " ", "e">>,
     <<"a", " ", "b", " ", "c", " ", "d">>,
     <<"1", "2", " ", "3", "4">>,
     <<" ", "A", "l", " ", "B", "o", " ", "\r">>,
     <<"m", "y", " ", "R", "E", "S", "U", "M", "E", " ", "x">>}
NameTexts ==
    {Join(ls, <<"\n">>) : ls \in SeqsUpTo(CoreLines, MaxLines) \cup SeqsUpTo(SampleLines, 2)}

ApplyExtractName ==
    /\ fn = "extractName" /\ out = Pending
    /\ out' = extractName(arg)
    /\ UNCHANGED <<build, load, req, pc, fs, issued, trace, resp, reply, fn, arg>>

InitName == HelperInit("extractName", NameTexts)
SpecName == InitName /\ [][ApplyExtractName]_vars

-----------------------------------------------------------------------------
(* Properties of the helpers *)

\* C3: extractJSON never raises: when no parse succeeds the result is null.
C3_DecoderNeverRaises == out # SyntaxError

\* The substring the fallback scan is said to take: from the leftmost "{"
\* with a "}" after it, or "[" with a "]" after it, to the last such closer.
ScanStarts(t) ==
    {i \in 1..Len(t) :
        \/ t[i] = "{" /\ \E j \in (i + 1)..Len(t) : t[j] = "}"
        \/ t[i] = "[" /\ \E j \in (i + 1)..Len(t) : t[j] = "]"}
ScanFrom(t, i) ==
    SubSeq(t, i, Max({j \in 1..Len(t) : t[j] = (IF t[i] = "{" THEN "}" ELSE "]")}))
Brackets(t) == {i \in 1..Len(t) : t[i] \in {"{", "}", "[", "]"}}

\* C10: the decoder returns the strict parse of a text that is valid as a
\* whole; otherwise the parse of the greedy bracket substring, so an object
\* or array wrapped in bracket-free prose comes back intact; and null when
\* the text has no bracket substring.
C10_DecoderResult ==
    out # Pending =>
        /\ JSONparse(arg).ok => out = JSONparse(arg).val
        /\ (~JSONparse(arg).ok /\ ScanStarts(arg) = {}) => out = JSNull
        /\ (~JSONparse(arg).ok /\ ScanStarts(arg) # {}
                /\ JSONparse(ScanFrom(arg, Min(ScanStarts(arg)))).ok)
            => out = JSONparse(ScanFrom(arg, Min(ScanStarts(arg)))).val
        /\ (~JSONparse(arg).ok /\ Brackets(arg) # {}
                /\ arg[Min(Brackets(arg))] \in {"{", "["}
                /\ JSONparse(SubSeq(arg, Min(Brackets(arg)), Max(Brackets(arg)))).ok)
            => out = JSONparse(SubSeq(arg, Min(Brackets(arg)), Max(Brackets(arg)))).val
C10_Witness == arg = ReplyWrapped /\ out = ReplyObject

\* The address the claim describes: as the pattern, with the last component
\* matched in either letter case.
ClaimedEmailEndAt(t, i) ==
    LET a    == RunEnd(t, i, LocalChar)
        e    == RunEnd(t, a + 1, DomainChar)
        dots == {k \in (a + 2)..(e - 1) :
                    t[k] = "." /\ RunEnd(t, k + 1, Letter) >= k + 1 + MinTldLen}
    IN  IF a > i /\ At(t, a) = "@" /\ dots # {}
        THEN RunEnd(t, Max(dots) + 1, Letter) - 1
        ELSE 0
ClaimedEmail(t) ==
    LET starts == {i \in 1..Len(t) : ClaimedEmailEndAt(t, i) # 0} IN
    IF starts = {} THEN JSNull
    ELSE SubSeq(t, Min(starts), ClaimedEmailEndAt(t, Min(starts)))

\* C9: extractEmail returns the leftmost address, its last component matched
\* case-insensitively (an address ending in ".COM" is returned in full), and
\* null exactly when the text holds no address.
C9_EmailCaseInsensitiveTld == out # Pending => out = ClaimedEmail(arg)

\* The number of tokens of s when any run of white space separates them.
WhitespaceTokens(s) ==
    Cardinality({i \in 1..Len(s) :
        s[i] \notin WhiteSpace /\ (i = 1 \/ s[i - 1] \in WhiteSpace)})
ClaimedNameLineOk(s) ==
    /\ ~Includes(toLowerCase(s), <<"r", "e", "s", "u", "m", "e">>)
    /\ \E i \in 1..Len(s) : s[i] \in Letter
    /\ WhitespaceTokens(s) <= MaxNamePieces
ClaimedName(text) ==
    LET lines == TrimmedLines(text)
        ok    == {i \in 1..Len(lines) : i <= NameScanLines /\ ClaimedNameLineOk(lines[i])}
    IN  IF ok = {} THEN JSNull ELSE lines[Min(ok)]

\* C8: extractName returns the first of the first 6 non-empty trimmed lines
\* that has no "resume", has a letter and has at most 4 tokens, a token being
\* delimited by any run of white space; null when there is none.
C8_NameWhitespaceTokens == out # Pending => out = ClaimedName(arg)

====
